---------------------------- MODULE Spec2Model ----------------------------
(***************************************************************************)
(* The SQL Server dialect of the ORM (client/orm/db_mssql.go).             *)
(*                                                                         *)
(* The dialect is stateless apart from the package-level reserved-word map *)
(* SqlServerKeywords, which init() fills.  A state of the model is that    *)
(* map together with the observation of the last call made on the dialect: *)
(* the operation, its arguments, what it returned, the string behind its   *)
(* *string argument, the calls it made on the injected dbQuerier and the   *)
(* lines it wrote to DebugLog.                                             *)
(*                                                                         *)
(* Strings the code takes apart (queries, templates, keywords, fragments)  *)
(* are sequences of one-character strings; strings that are only used as   *)
(* map keys or handed back whole are TLA+ strings.                         *)
(***************************************************************************)
EXTENDS Integers, Sequences, FiniteSets, TLC

VARIABLES
    SqlServerKeywords,  \* the keys of the package-level map SqlServerKeywords
    op,                 \* the last operation called ("none" before any call)
    arg,                \* its arguments
    ret,                \* its return value
    query,              \* the string behind its *string argument, on return
    calls,              \* the calls it made on the dbQuerier, with their outcome
    logged              \* the lines it wrote to DebugLog

vars == <<SqlServerKeywords, op, arg, ret, query, calls, logged>>

----------------------------------------------------------------------------
(* Bounds of the model.                                                    *)

MaxLen == 3        \* longest query over Alphabet
MaxMarks == 11     \* most markers in a query (two-digit placeholders from 10 on)
MaxNameLen == 2    \* longest table name over NameAlphabet
MaxIndexLen == 1   \* longest index name over IndexAlphabet
MaxKeyLen == 2     \* longest identifier over KeyAlphabet
MaxCount == 2      \* largest count a scanned row holds

----------------------------------------------------------------------------
(* Strings.                                                                *)

Chars(s) == [i \in 1..Len(s) |-> SubSeq(s, i, i)]

Str(A, n) == UNION {[1..m -> A] : m \in 0..n}

EmptyString == <<>>

\* Number of occurrences of character c in s (strings.Count for one byte).
Count(s, c) == Cardinality({i \in 1..Len(s) : s[i] = c})

\* Number of (possibly overlapping) places where t occurs in s.
Occurrences(t, s) ==
    Cardinality({i \in 1..(Len(s) - Len(t) + 1) : SubSeq(s, i, i + Len(t) - 1) = t})

----------------------------------------------------------------------------
(* Library functions the dialect calls, computed as the library computes   *)
(* them.                                                                   *)

\* strings.Index(s, sep) for a one-byte sep: the first place sep occurs in s,
\* 1-based; 0 (Go: -1) when it does not occur.
Index(s, sep) ==
    IF \E i \in 1..Len(s) : s[i] = sep
    THEN CHOOSE i \in 1..Len(s) :
            s[i] = sep /\ \A j \in 1..(i - 1) : s[j] # sep
    ELSE 0

\* strings.SplitN(s, sep, 2): splits at the first separator only.
SplitFirstOnly(s, sep) ==
    LET m == Index(s, sep)
    IN  IF m = 0 THEN <<s>>
        ELSE <<SubSeq(s, 1, m - 1), SubSeq(s, m + 1, Len(s))>>

\* strings.Split(s, sep) for a one-byte sep: the substrings between the
\* separators, Count(s, sep) + 1 of them; <<"">> for the empty string.
Split(s, sep) ==
    LET at == {i \in 1..Len(s) : s[i] = sep}
        n == Cardinality(at)
        \* the place of the j-th separator; 0 and Len(s) + 1 bound the string
        place(j) ==
            IF j = 0 THEN 0
            ELSE IF j = n + 1 THEN Len(s) + 1
            ELSE CHOOSE i \in at : Cardinality({k \in at : k <= i}) = j
    IN  [j \in 1..(n + 1) |-> SubSeq(s, place(j - 1) + 1, place(j) - 1)]

Digits == Chars("0123456789")

\* Decimal digits, least significant first.
RECURSIVE FormatIntReversed(_)
FormatIntReversed(n) ==
    IF n < 0 THEN <<"-">> \o FormatIntReversed(-n)
    ELSE IF n < 10 THEN <<Digits[n + 1]>>
    ELSE <<Digits[(n % 10) + 1]>> \o FormatIntReversed(n \div 10)

\* strconv.FormatInt(n, 10).
RECURSIVE FormatInt(_)
FormatInt(n) ==
    IF n < 0 THEN <<"-">> \o FormatInt(-n)
    ELSE IF n < 10 THEN <<Digits[n + 1]>>
    ELSE FormatInt(n \div 10) \o <<Digits[(n % 10) + 1]>>

UpperCase == Chars("ABCDEFGHIJKLMNOPQRSTUVWXYZ")
LowerCase == Chars("abcdefghijklmnopqrstuvwxyz")

ToLowerChar(c) ==
    IF \E i \in 1..26 : UpperCase[i] = c
    THEN LowerCase[CHOOSE i \in 1..26 : UpperCase[i] = c]
    ELSE c

\* strings.ToLower(s).
ToLower(s) == [i \in 1..Len(s) |-> ToLowerChar(s[i])]

\* fmt.Sprintf(format, args...) for string arguments: %s takes the next
\* argument, %% is a percent sign, another verb or a missing argument leaves
\* fmt's error text, arguments left over are reported at the end.
RECURSIVE ExtraArgs(_)
ExtraArgs(args) ==
    IF Len(args) = 1 THEN Chars("string=") \o args[1]
    ELSE Chars("string=") \o args[1] \o Chars(", ") \o ExtraArgs(Tail(args))

RECURSIVE Sprintf(_, _)
Sprintf(format, args) ==
    LET m == Index(format, "%")
    IN  IF m = 0
        THEN IF args = <<>> THEN format
             ELSE format \o Chars("%!(EXTRA ") \o ExtraArgs(args) \o Chars(")")
        ELSE LET before == SubSeq(format, 1, m - 1)
             IN  IF m = Len(format)
                 THEN before \o Chars("%!(NOVERB)")
                 ELSE LET verb == format[m + 1]
                          rest == SubSeq(format, m + 2, Len(format))
                      IN  IF verb = "%"
                          THEN before \o <<"%">> \o Sprintf(rest, args)
                          ELSE IF args = <<>>
                          THEN before \o <<"%", "!", verb>> \o Chars("(MISSING)")
                                      \o Sprintf(rest, args)
                          ELSE IF verb = "s"
                          THEN before \o args[1] \o Sprintf(rest, Tail(args))
                          ELSE before \o <<"%", "!", verb>> \o Chars("(string=")
                                      \o args[1] \o Chars(")")
                                      \o Sprintf(rest, Tail(args))

\* A Go map read m[k]: the zero value (the empty string) for a missing key.
MapGet(m, k) == IF k \in DOMAIN m THEN m[k] ELSE EmptyString

----------------------------------------------------------------------------
(* The package-level data of db_mssql.go.                                  *)

\* The table with the placeholder left out of the upper-casing fragments.
mssqlOperatorsBareUpper ==
    ("exact"       :> Chars("= ?")) @@
    ("iexact"      :> Chars("= UPPER()")) @@
    ("contains"    :> Chars("LIKE ?")) @@
    ("icontains"   :> Chars("LIKE UPPER()")) @@
    ("gt"          :> Chars("> ?")) @@
    ("gte"         :> Chars(">= ?")) @@
    ("lt"          :> Chars("< ?")) @@
    ("lte"         :> Chars("<= ?")) @@
    ("eq"          :> Chars("= ?")) @@
    ("ne"          :> Chars("!= ?")) @@
    ("startswith"  :> Chars("LIKE ?")) @@
    ("endswith"    :> Chars("LIKE ?")) @@
    ("istartswith" :> Chars("LIKE UPPER()")) @@
    ("iendswith"   :> Chars("LIKE UPPER()"))

\* mssql operators: the fragments are taken apart to count their placeholders.
mssqlOperators ==
    ("exact"       :> Chars("= ?")) @@
    ("iexact"      :> Chars("= UPPER(?)")) @@
    ("contains"    :> Chars("LIKE ?")) @@
    ("icontains"   :> Chars("LIKE UPPER(?)")) @@
    ("gt"          :> Chars("> ?")) @@
    ("gte"         :> Chars(">= ?")) @@
    ("lt"          :> Chars("< ?")) @@
    ("lte"         :> Chars("<= ?")) @@
    ("eq"          :> Chars("= ?")) @@
    ("ne"          :> Chars("!= ?")) @@
    ("startswith"  :> Chars("LIKE ?")) @@
    ("endswith"    :> Chars("LIKE ?")) @@
    ("istartswith" :> Chars("LIKE UPPER(?)")) @@
    ("iendswith"   :> Chars("LIKE UPPER(?)"))

\* mssql column field types.
mssqlTypes ==
    ("auto"            :> "IDENTITY(1,1) NOT NULL PRIMARY KEY") @@
    ("pk"              :> "NOT NULL PRIMARY KEY") @@
    ("bool"            :> "bit") @@
    ("string"          :> "varchar(%d)") @@
    ("string-char"     :> "char(%d)") @@
    ("string-text"     :> "text") @@
    ("time.Time-date"  :> "date") @@
    ("time.Time"       :> "datetime") @@
    ("int8"            :> "tinyint") @@
    ("int16"           :> "smallint") @@
    ("int32"           :> "int") @@
    ("int64"           :> "bigint") @@
    ("uint8"           :> "tinyint") @@
    ("uint16"          :> "smallint") @@
    ("uint32"          :> "int") @@
    ("uint64"          :> "bigint") @@
    ("float64"         :> "float(53)") @@
    ("float64-decimal" :> "number(%d, %d)")

\* The static comma-separated list of reserved words.
sqlServerKeywords ==
    Chars("ADD,EXTERNAL,NATIONAL,SUBSTRING,ALL,FETCH,NCHAR,SUM,ALTER," \o
          "FILE,NEXT,SYMMETRIC,AND,FILEGROUP,NOCHECK,THEN,ANY," \o
          "FILESTREAM,NONCLUSTERED,TO,AS,FILLFACTOR,NOT,TOP,ASC,FOR," \o
          "NULL,TRAN,AUTHORIZATION,FOREIGN,NULLIF,TRIGGER,BACKUP," \o
          "FREETEXT,NUMERIC,TRUNCATE,BEGIN,FREETEXTTABLE,OF," \o
          "TRY_CONVERT,BETWEEN,FROM,OFF,TSEQUAL,BROWSE,FUNCTION,ON," \o
          "UNION,BULK,GOTO,OPEN,UNIQUE,BY,GRANT,OPENDATASOURCE,UNPIVOT," \o
          "CASCADE,GROUP,OPENQUERY,UPDATE,CASE,HAVING,OPENROWSET," \o
          "UPDATETEXT,CHECK,HOLDLOCK,OPENXML,USE,CHECKPOINT,IDENTITY," \o
          "OPTION,USER,CLOSE,IF,OR,VALUES,CLUSTERED,IN,ORDER,VARYING," \o
          "COALESCE,INDEX,OUTER,VIEW,COLLATE,INNER,OVER,WAITFOR,COLUMN," \o
          "INSERT,PERCENT,WHEN,COMMIT,INTERSECT,PIVOT,WHERE,COMPUTE," \o
          "INTO,PLAN,WHILE,CONSTRAINT,IS,PRECISION,WITH,CONTAINS," \o
          "ISNULL,PRIMARY,WITHIN GROUP,CONTAINSTABLE,JOIN,PRINT," \o
          "WRITETEXT,CONTINUE,KEY,PROC,CONVERT,KILL,PROCEDURE,CREATE," \o
          "LEFT,PUBLIC,CROSS,LIKE,RAISERROR,CURRENT,LINENO,READ," \o
          "CURRENT_DATE,LOAD,READTEXT,CURRENT_TIME,MERGE,RECONFIGURE," \o
          "CURRENT_TIMESTAMP,MINUTE,REFERENCES,CURSOR,MONEY," \o
          "REPLICATION,DATABASE,NATIONAL,RESTORE,TYPE,DESC,key_type," \o
          "interval")

\* The loop of init(): every entry of the split list, lower-cased, becomes a
\* key of the map.
InitLoop(keywordList) ==
    {ToLower(keywordList[i]) : i \in 1..Len(keywordList)}

\* keywordList of init(): the entries of the static list.
keywordList == Split(sqlServerKeywords, ",")

\* The map as init() leaves it.
InitKeywords == InitLoop(keywordList)

\* The templates of the catalog queries.
showTablesSql ==
    Chars("SELECT\n" \o
          "\tTABLE_NAME\n" \o
          "FROM\n" \o
          "\tINFORMATION_SCHEMA.TABLES\n" \o
          "WHERE\n" \o
          "\tTABLE_TYPE = 'BASE TABLE'\n" \o
          "\tAND TABLE_SCHEMA NOT IN ('sys', 'INFORMATION_SCHEMA')")

showColumnsSql ==
    Chars("select\n" \o
          "\tCOLUMN_NAME,\n" \o
          "\tDATA_TYPE,\n" \o
          "\tIS_NULLABLE\n" \o
          "from\n" \o
          "\tINFORMATION_SCHEMA.COLUMNS\n" \o
          "where\n" \o
          "\tTABLE_SCHEMA not in ('sys', 'INFORMATION_SCHEMA')\n" \o
          "\tand TABLE_NAME = '%s';")

countIndexSql ==
    Chars("SELECT\n" \o
          "\tCOUNT(*) AS IndexCount\n" \o
          "FROM\n" \o
          "\tsys.indexes i\n" \o
          "INNER JOIN sys.objects o ON\n" \o
          "\ti.object_id = o.object_id\n" \o
          "WHERE\n" \o
          "\to.type = 'U'\n" \o
          "\tAND o.name = '%s'\n" \o
          "\tAND i.name = '%s'")

specifyIndexWarning ==
    "[WARN] Not support any specifying index action, so that action is ignored"

----------------------------------------------------------------------------
(* What the callers pass in.                                               *)

Void == "void"

\* segment, then a marker, n times over.
RECURSIVE Repeat(_, _)
Repeat(segment, n) ==
    IF n = 0 THEN EmptyString ELSE segment \o <<"?">> \o Repeat(segment, n - 1)

Alphabet == {"a", "?", "$", "1"}
ExampleQueries == {Chars("a=? AND b=?"), Chars("no markers here")}
Queries ==
    Str(Alphabet, MaxLen)
    \cup {Repeat(segment, n) \o tail :
            segment \in {EmptyString, Chars("c=")}, n \in 0..MaxMarks,
            tail \in {EmptyString, Chars(";")}}
    \cup ExampleQueries

SupportedOperators ==
    {"exact", "iexact", "contains", "icontains", "gt", "gte", "lt", "lte",
     "eq", "ne", "startswith", "endswith", "istartswith", "iendswith"}
OtherOperators == {"", "in", "between", "isnull", "regex", "EXACT"}
OperatorNames == SupportedOperators \cup OtherOperators

NameAlphabet == {"s", "x", "O", "'"}
TableNames == Str(NameAlphabet, MaxNameLen) \cup {Chars("Orders"), Chars("sys")}

IndexedTables == {Chars("Orders"), Chars("O'")}
IndexAlphabet == {"i", "'"}
IndexNames == Str(IndexAlphabet, MaxIndexLen)

KeyAlphabet == {"i", "I", "n", "N", "x"}
ExampleKeys ==
    {Chars("index"), Chars("INDEX"), Chars("Index"),
     Chars("table"), Chars("TABLE"), Chars("Table"), Chars("within group")}
Keys == Str(KeyAlphabet, MaxKeyLen) \cup ExampleKeys

Contexts == {"Background", "WithTimeout"}

\* What QueryRowContext and Row.Scan do with one call: Scan returns the
\* row's error, or stores the count into its destination (and may still
\* return the error of closing the rows).
Outcomes ==
    {[err |-> e, stored |-> TRUE, count |-> c] :
        e \in BOOLEAN, c \in (-1)..MaxCount}
    \cup {[err |-> TRUE, stored |-> FALSE, count |-> 0]}

UseIndexes == {0, 1, 2}
IndexLists == {<<>>, <<"idx_a">>, <<"idx_a", "idx_b">>}
ModelInfos == {"nil", "user"}

----------------------------------------------------------------------------
(* The dialect.                                                            *)

\* A call that touches neither a *string argument, nor the dbQuerier, nor
\* DebugLog, nor the reserved-word map.
Pure ==
    /\ query' = EmptyString
    /\ calls' = <<>>
    /\ logged' = <<>>
    /\ UNCHANGED SqlServerKeywords

\* A lookup that stores the key it was asked about.
IsSqlServerKeywordStoring(key) ==
    /\ op' = "IsSqlServerKeyword"
    /\ arg' = key
    /\ ret' = (key \in SqlServerKeywords)
    /\ query' = EmptyString
    /\ calls' = <<>>
    /\ logged' = <<>>
    /\ SqlServerKeywords' = SqlServerKeywords \cup {key}

IsSqlServerKeyword(key) ==
    /\ op' = "IsSqlServerKeyword"
    /\ arg' = key
    /\ ret' = (key \in SqlServerKeywords)
    /\ Pure

\* A table that falls back to the exact match for a name it does not hold.
OperatorSQLWithDefault(operator) ==
    /\ op' = "OperatorSQL"
    /\ arg' = operator
    /\ ret' = IF operator \in DOMAIN mssqlOperators
              THEN mssqlOperators[operator] ELSE mssqlOperators["exact"]
    /\ Pure

OperatorSQL(operator) ==
    /\ op' = "OperatorSQL"
    /\ arg' = operator
    /\ ret' = MapGet(mssqlOperators, operator)
    /\ Pure

SupportUpdateJoin ==
    /\ op' = "SupportUpdateJoin"
    /\ arg' = <<>>
    /\ ret' = TRUE
    /\ Pure

TableQuote ==
    /\ op' = "TableQuote"
    /\ arg' = <<>>
    /\ ret' = EmptyString
    /\ Pure

\* The loop of ReplaceMarks; i is the loop index, q the string built so far.
RECURSIVE ReplaceMarksLoop(_, _, _)
ReplaceMarksLoop(ss, i, q) ==
    IF i < Len(ss) - 1
    THEN ReplaceMarksLoop(ss, i + 1,
                          q \o ss[i + 1] \o <<"$">> \o FormatInt(i + 1))
    ELSE q

\* The loop run over every segment, the last one too, with no guard.
ReplaceMarksEverySegment(q) ==
    LET ss == Split(q, "?")
    IN  ReplaceMarksLoop(ss \o <<EmptyString>>, 0, EmptyString)

\* The string ReplaceMarks leaves behind its argument.
ReplaceMarksString(q) ==
    LET ss == Split(q, "?")
    IN  IF Len(ss) > 1
        THEN ReplaceMarksLoop(ss, 0, EmptyString) \o ss[Len(ss)]
        ELSE q

ReplaceMarks(q) ==
    /\ op' = "ReplaceMarks"
    /\ arg' = q
    /\ ret' = Void
    /\ query' = ReplaceMarksString(q)
    /\ calls' = <<>>
    /\ logged' = <<>>
    /\ UNCHANGED SqlServerKeywords

\* The caller hands ReplaceMarks the string it has just rewritten.
ReplaceMarksAgain ==
    /\ op = "ReplaceMarks"
    /\ ReplaceMarks(query)

ShowTablesQuery ==
    /\ op' = "ShowTablesQuery"
    /\ arg' = <<>>
    /\ ret' = showTablesSql
    /\ Pure

\* The table name written a second time, into a trailing comment.
ShowColumnsQueryTwice(table) ==
    /\ op' = "ShowColumnsQuery"
    /\ arg' = table
    /\ ret' = Sprintf(showColumnsSql \o Chars(" -- %s"), <<table, table>>)
    /\ Pure

ShowColumnsQuery(table) ==
    /\ op' = "ShowColumnsQuery"
    /\ arg' = table
    /\ ret' = Sprintf(showColumnsSql, <<table>>)
    /\ Pure

DbTypes ==
    /\ op' = "DbTypes"
    /\ arg' = <<>>
    /\ ret' = mssqlTypes
    /\ Pure

\* An index counted as existing unless the count is negative.
IndexExistsNotNegative(ctx, table, name) ==
    \E row \in Outcomes :
        LET cnt == IF row.stored THEN row.count ELSE 0
        IN  /\ op' = "IndexExists"
            /\ arg' = [ctx |-> ctx, table |-> table, name |-> name]
            /\ calls' = <<[ctx |-> ctx,
                           query |-> Sprintf(countIndexSql, <<table, name>>),
                           row |-> row]>>
            /\ ret' = (cnt >= 0)
            /\ query' = EmptyString
            /\ logged' = <<>>
            /\ UNCHANGED SqlServerKeywords

IndexExists(ctx, table, name) ==
    \E row \in Outcomes :
        LET cnt == IF row.stored THEN row.count ELSE 0
        IN  /\ op' = "IndexExists"
            /\ arg' = [ctx |-> ctx, table |-> table, name |-> name]
            /\ calls' = <<[ctx |-> ctx,
                           query |-> Sprintf(countIndexSql, <<table, name>>),
                           row |-> row]>>
            /\ ret' = (cnt > 0)
            /\ query' = EmptyString
            /\ logged' = <<>>
            /\ UNCHANGED SqlServerKeywords

GenerateSpecifyIndex(tableName, useIndex, indexes) ==
    /\ op' = "GenerateSpecifyIndex"
    /\ arg' = [tableName |-> tableName, useIndex |-> useIndex,
               indexes |-> indexes]
    /\ logged' = <<specifyIndexWarning>>
    /\ ret' = EmptyString
    /\ query' = EmptyString
    /\ calls' = <<>>
    /\ UNCHANGED SqlServerKeywords

HasReturningID(mi, q) ==
    /\ op' = "HasReturningID"
    /\ arg' = [mi |-> mi, query |-> q]
    /\ ret' = FALSE
    /\ query' = q
    /\ calls' = <<>>
    /\ logged' = <<>>
    /\ UNCHANGED SqlServerKeywords

----------------------------------------------------------------------------
(* The specification: init() has run, then any calls in any order.         *)

Init ==
    /\ SqlServerKeywords = InitKeywords
    /\ op = "none"
    /\ arg = <<>>
    /\ ret = Void
    /\ query = EmptyString
    /\ calls = <<>>
    /\ logged = <<>>

Next ==
    \/ \E operator \in OperatorNames : OperatorSQL(operator)
    \/ SupportUpdateJoin
    \/ TableQuote
    \/ \E q \in Queries : ReplaceMarks(q)
    \/ ReplaceMarksAgain
    \/ ShowTablesQuery
    \/ \E table \in TableNames : ShowColumnsQuery(table)
    \/ DbTypes
    \/ \E ctx \in Contexts, table \in IndexedTables, name \in IndexNames :
          IndexExists(ctx, table, name)
    \/ \E tableName \in IndexedTables, useIndex \in UseIndexes,
          indexes \in IndexLists :
          GenerateSpecifyIndex(tableName, useIndex, indexes)
    \/ \E mi \in ModelInfos, q \in ExampleQueries : HasReturningID(mi, q)
    \/ \E key \in Keys : IsSqlServerKeyword(key)

Spec == Init /\ [][Next]_vars

----------------------------------------------------------------------------
(* Placeholder rewriting.                                                  *)

DigitValue(c) ==
    CASE c = "0" -> 0 [] c = "1" -> 1 [] c = "2" -> 2 [] c = "3" -> 3
      [] c = "4" -> 4 [] c = "5" -> 5 [] c = "6" -> 6 [] c = "7" -> 7
      [] c = "8" -> 8 [] c = "9" -> 9

RECURSIVE NumeralValue(_)
NumeralValue(d) ==
    IF d = <<>> THEN 0
    ELSE 10 * NumeralValue(SubSeq(d, 1, Len(d) - 1)) + DigitValue(d[Len(d)])

\* d is the decimal numeral of n: digits only, no leading zero.
IsNumeral(d, n) ==
    /\ d # <<>>
    /\ \A i \in 1..Len(d) :
          d[i] \in {"0", "1", "2", "3", "4", "5", "6", "7", "8", "9"}
    /\ Len(d) > 1 => d[1] # "0"
    /\ NumeralValue(d) = n

\* out is in read left to right with every other character kept and the
\* markers rewritten as $n, $n+1, ... in turn.
RECURSIVE Rewritten(_, _, _)
Rewritten(in, out, n) ==
    IF in = <<>> THEN out = <<>>
    ELSE IF Head(in) = "?"
    THEN \E w \in 1..(Len(out) - 1) :
            /\ out[1] = "$"
            /\ IsNumeral(SubSeq(out, 2, w + 1), n)
            /\ Rewritten(Tail(in), SubSeq(out, w + 2, Len(out)), n + 1)
    ELSE /\ out # <<>>
         /\ Head(out) = Head(in)
         /\ Rewritten(Tail(in), Tail(out), n)

\* C1: ReplaceMarks turns the i-th '?' of its input into $i, for all k
\* markers of the input, and keeps the text before, between and after them
\* as it was and in order: k placeholders are written, none dropped,
\* duplicated or reordered; "a=? AND b=?" becomes "a=$1 AND b=$2".
C1_MarksRewritten ==
    op = "ReplaceMarks" =>
        /\ Rewritten(arg, query, 1)
        /\ Count(query, "$") = Count(arg, "$") + Count(arg, "?")
        /\ arg = Chars("a=? AND b=?") => query = Chars("a=$1 AND b=$2")

\* A query of ten markers with text between them has been rewritten, up to
\* the two-digit placeholder.
C1_Witness ==
    /\ op = "ReplaceMarks"
    /\ Count(arg, "?") = 10
    /\ Count(arg, "c") = 10
    /\ Occurrences(Chars("c=$9c=$10"), query) = 1

\* C2: a query without a '?' (the empty one too) is left exactly as it was.
C2_NoMarkerUnchanged ==
    (op = "ReplaceMarks" /\ Count(arg, "?") = 0) => query = arg

\* The query "no markers here" has been through ReplaceMarks.
C2_Witness ==
    /\ op = "ReplaceMarks"
    /\ arg = Chars("no markers here")
    /\ query = Chars("no markers here")

\* C10: what ReplaceMarks leaves holds no '?', and handing ReplaceMarks its
\* own output again changes nothing.
C10_Idempotent ==
    [][op' = "ReplaceMarks" =>
          /\ Count(query', "?") = 0
          /\ (op = "ReplaceMarks" /\ arg' = query) => query' = query]_vars

\* ReplaceMarks has been called a second time, on its own output.
C10_Witness ==
    /\ op = "ReplaceMarks"
    /\ arg = Chars("a=$1 AND b=$2")
    /\ query = arg

----------------------------------------------------------------------------
(* Operator resolution.                                                    *)

\* C3: for every operator name of the supported set, OperatorSQL returns a
\* fragment that is not empty and holds exactly one placeholder marker '?'.
C3_OnePlaceholder ==
    (op = "OperatorSQL" /\ arg \in SupportedOperators) =>
        /\ ret # EmptyString
        /\ Count(ret, "?") = 1

\* The fragment of a supported operator has been asked for.
C3_Witness ==
    /\ op = "OperatorSQL"
    /\ arg = "icontains"
    /\ ret = Chars("LIKE UPPER(?)")

\* C4, as claimed: an operator name the table does not hold is not answered
\* with the empty fragment.
C4_UnknownNotEmpty ==
    (op = "OperatorSQL" /\ arg \notin DOMAIN mssqlOperators) =>
        ret # EmptyString

\* C4, amended: OperatorSQL answers a name the table does not hold with the
\* empty string, the zero value of the map read, and with nothing else; the
\* caller tells it from a successful lookup only by its being empty, which
\* no fragment of the table is.
C4_UnknownIsEmpty ==
    op = "OperatorSQL" =>
        (ret = EmptyString <=> arg \notin DOMAIN mssqlOperators)

\* An operator the table does not hold has been asked for.
C4_Witness ==
    /\ op = "OperatorSQL"
    /\ arg = "between"
    /\ ret = EmptyString

----------------------------------------------------------------------------
(* Reserved words.                                                         *)

\* C5, as claimed: two spellings that differ only in letter case get the
\* same answer from IsSqlServerKeyword.
C5_CaseInsensitive ==
    [][(/\ op = "IsSqlServerKeyword"
        /\ op' = "IsSqlServerKeyword"
        /\ ToLower(arg) = ToLower(arg')) => ret' = ret]_vars

HasUpperCase(s) == \E i \in 1..Len(s), j \in 1..26 : s[i] = UpperCase[j]

\* The entries of the static list, lower-cased.
LoweredEntries == {ToLower(keywordList[i]) : i \in 1..Len(keywordList)}

\* C8: after init(), whatever is called, SqlServerKeywords is exactly the
\* lower-cased entries of the static list: every member is lower case, and
\* nothing is added, removed or changed.
C8_KeywordsFixed ==
    /\ \A w \in LoweredEntries : w \in SqlServerKeywords
    /\ \A w \in SqlServerKeywords :
          /\ ~HasUpperCase(w)
          /\ w \in LoweredEntries

\* A word that is no reserved word has been looked up, and is none still.
C8_Witness ==
    /\ op = "IsSqlServerKeyword"
    /\ arg = Chars("Table")
    /\ ret = FALSE
    /\ arg \notin SqlServerKeywords
    /\ Chars("index") \in SqlServerKeywords

----------------------------------------------------------------------------
(* Catalog introspection.                                                  *)

\* The text of ShowColumnsQuery around the table name.
ColumnsHead == SubSeq(showColumnsSql, 1, Len(showColumnsSql) - 4)
ColumnsTail == Chars("';")

\* C7, as claimed: the table name occurs exactly once in the text.
C7_NameOccursOnce ==
    (op = "ShowColumnsQuery" /\ arg # EmptyString) =>
        Occurrences(arg, ret) = 1

\* C7, amended: ShowColumnsQuery(t) is the fixed template with t written
\* once, in place of its one slot, inside the single quotes of the
\* TABLE_NAME = '...' condition that ends it; t occurs exactly once in the
\* text when t is not empty, holds no single quote and does not occur in
\* the fixed text (a name such as "sys" or "s" occurs there again).
C7_NameEmbeddedOnce ==
    op = "ShowColumnsQuery" =>
        /\ ret = ColumnsHead \o arg \o ColumnsTail
        /\ SubSeq(ColumnsHead, Len(ColumnsHead) - 13, Len(ColumnsHead))
              = Chars("TABLE_NAME = '")
        /\ Count(ColumnsHead, "%") = 0
        /\ (/\ arg # EmptyString
            /\ Count(arg, "'") = 0
            /\ Occurrences(arg, ColumnsHead \o ColumnsTail) = 0)
              => Occurrences(arg, ret) = 1

\* The columns of table Orders have been asked for.
C7_Witness ==
    /\ op = "ShowColumnsQuery"
    /\ arg = Chars("Orders")
    /\ Occurrences(arg, ret) = 1
    /\ Occurrences(Chars("TABLE_NAME = 'Orders';"), ret) = 1

\* C6, as claimed: a failed catalog query can be told from the answer that
\* the index does not exist: asked about the same index, a call whose query
\* failed and a call whose query counted 0 do not return the same.
C6_FailureTold ==
    [][(/\ op = "IndexExists"
        /\ op' = "IndexExists"
        /\ arg' = arg
        /\ calls[1].row.err
        /\ ~calls'[1].row.err
        /\ calls'[1].row.count = 0) => ret' # ret]_vars

\* C9: IndexExists calls the dbQuerier exactly once, with the caller's
\* context and a count query that names the table and the index, and
\* returns true exactly when the count its Scan stored is greater than 0.
C9_OneQuery ==
    op = "IndexExists" =>
        /\ Len(calls) = 1
        /\ calls[1].ctx = arg.ctx
        /\ Occurrences(Chars("COUNT(*)"), calls[1].query) = 1
        /\ Occurrences(Chars("o.name = '") \o arg.table \o Chars("'"),
                       calls[1].query) >= 1
        /\ Occurrences(Chars("i.name = '") \o arg.name \o Chars("'"),
                       calls[1].query) >= 1
        /\ ret = (calls[1].row.stored /\ calls[1].row.count > 0)

\* An index has been looked for and the row held the count 1.
C9_Witness ==
    /\ op = "IndexExists"
    /\ arg.table = Chars("Orders")
    /\ arg.name = Chars("i")
    /\ ~calls[1].row.err
    /\ calls[1].row.count = 1
    /\ ret = TRUE

====
